---- MODULE Spec2Model ----
(***************************************************************************)
(* A model of ArgumentParserExtd (src/argparse_extd/argparse_extd.py): an  *)
(* argparse.ArgumentParser whose Namespace can be filled from a config     *)
(* file (json / yaml / ini / toml, optionally compressed) and written back *)
(* to one, minus a registry of excluded option names.                      *)
(*                                                                         *)
(* Python strings that the code takes apart (option spellings, file paths, *)
(* format names) are sequences of tokens; Join gives the string they       *)
(* spell.  Every Python value is a record [t, s, m]: its type, its str()   *)
(* rendering and, for a dict, its items.  A serialized text is a record    *)
(* [fmt, doc]: the syntax it is written in and the document it spells.     *)
(***************************************************************************)
EXTENDS Naturals, Sequences, FiniteSets, TLC

VARIABLES
    namespace,                      \* self.namespace.__dict__
    write_config_exclude_default,   \* self.write_config_exclude_default
    option_key_alist,               \* self.option_key_alist
    actions,                        \* the argparse actions registered, by dest
    fs,                             \* the file system: path string -> file
    raised,                         \* the exception the last call ended with
    ret,                            \* what the last call returned
    lastOp,                         \* the last call and its arguments
    pc                              \* where the calling program is

vars == <<namespace, write_config_exclude_default, option_key_alist, actions,
          fs, raised, ret, lastOp, pc>>

-----------------------------------------------------------------------------
(* Bounds of the model.                                                    *)

MaxArgs == 2        \* longest command line handed to parse_args
MaxFiles == 1       \* most files written on top of the ones present at start
MaxNames == 2       \* longest collection handed to append_write_config_exclude

-----------------------------------------------------------------------------
(* Python values.                                                          *)

EmptyMap == [k \in {} |-> 0]

Val(t, s) == [t |-> t, s |-> s, m |-> EmptyMap]
Dict(m) == [t |-> "dict", s |-> "{..}", m |-> m]
NoneVal == Val("none", "None")
FalseVal == Val("bool", "False")
TrueVal == Val("bool", "True")
Int(s) == Val("int", s)
Str(s) == Val("str", s)

\* str(value), as dict_to_string applies it to every value it writes to INI.
PyStr(v) == Str(v.s)

\* bool(value): the truth test of `if x:`.
Truthy(v) ==
    CASE v.t = "none" -> FALSE
      [] v.t = "bool" -> v.s = "True"
      [] v.t = "int" -> v.s # "0"
      [] v.t = "str" -> v.s # ""
      [] v.t = "dict" -> DOMAIN v.m # {}
      [] OTHER -> TRUE

\* {**a, **b}: the items of a, overridden by those of b.
Override(a, b) ==
    [k \in DOMAIN a \cup DOMAIN b |-> IF k \in DOMAIN b THEN b[k] ELSE a[k]]

Restrict(f, S) == [k \in DOMAIN f \cap S |-> f[k]]

Ok(v) == [raised |-> "none", value |-> v]
Raise(e) == [raised |-> e, value |-> EmptyMap]

-----------------------------------------------------------------------------
(* Strings as token sequences.                                             *)

RECURSIVE Join(_)
Join(s) == IF s = <<>> THEN "" ELSE Head(s) \o Join(Tail(s))

\* s.startswith(pre) and s.endswith(suf)
startswith(s, pre) ==
    Len(pre) <= Len(s) /\ SubSeq(s, 1, Len(pre)) = pre
endswith(s, suf) ==
    Len(suf) <= Len(s) /\ SubSeq(s, Len(s) - Len(suf) + 1, Len(s)) = suf

\* s.replace('-', '_')
replace_dash(s) == [i \in 1..Len(s) |-> IF s[i] = "-" THEN "_" ELSE s[i]]

\* os.path.splitext(p): the extension starts at the last dot of p that
\* follows a character other than a dot; <<root, ext>>.
splitext(p) ==
    LET dots == {i \in 2..Len(p) : p[i] = "." /\ \E j \in 1..(i-1) : p[j] # "."}
    IN  IF dots = {} THEN <<p, <<>>>>
        ELSE LET i == CHOOSE d \in dots : \A e \in dots : e <= d
             IN  <<SubSeq(p, 1, i - 1), SubSeq(p, i, Len(p))>>

\* str.lower() on a token sequence; the tokens of the model are lower case
\* but for "GZ".
lower(s) == [i \in 1..Len(s) |-> IF s[i] = "GZ" THEN "gz" ELSE s[i]]

-----------------------------------------------------------------------------
(* Class constants.                                                        *)

INI_SECTION == "DEFAULT"
TOML_SECTION == "DEFAULT"
COMPRESS_EXT == {<<".", "bz2">>, <<".", "gz">>, <<".", "xz">>}
F_MODE == "0o644"

-----------------------------------------------------------------------------
(* Files.  A file is [codec, text, mode]; a text is [fmt, doc].  The paths *)
(* of the model have no directory part, so os.path.dirname gives '' and    *)
(* write_configfile creates no directory.                                  *)

Text(fmt, doc) == [fmt |-> fmt, doc |-> doc]

\* A path argument: a str (its tokens in p), None, or the parser object.
PathStr(p) == [t |-> "str", p |-> p]
PathNone == [t |-> "none", p |-> <<>>]
PathSelf == [t |-> "parser", p |-> <<>>]

\* os.path.exists
exists(files, p) == Join(p) \in DOMAIN files

\* open_compressed: the codec the trailing extension selects.
open_compressed(f_path) ==
    IF endswith(f_path, <<".", "bz2">>) THEN "bz2"
    ELSE IF endswith(f_path, <<".", "gz">>) THEN "gz"
    ELSE IF endswith(f_path, <<".", "xz">>) THEN "xz"
    ELSE "plain"

\* f.read() of a file opened with `codec`.
read_file(files, p, codec) ==
    IF ~exists(files, p) THEN Raise("FileNotFoundError")
    ELSE IF files[Join(p)].codec # codec THEN Raise("OSError")
    ELSE Ok(files[Join(p)].text)

-----------------------------------------------------------------------------
(* The parsing libraries, by what they return.                             *)

json_loads(content) ==
    IF content.fmt = "json" THEN Ok(content.doc) ELSE Raise("JSONDecodeError")

\* YAML is a superset of JSON.
yaml_safe_load(content) ==
    IF content.fmt \in {"yaml", "json"} THEN Ok(content.doc)
    ELSE Raise("YAMLError")

toml_loads(content) ==
    IF content.fmt = "toml" THEN Ok(content.doc) ELSE Raise("TomlDecodeError")

\* ConfigParser.read_string
read_string(content) ==
    IF content.fmt = "ini" THEN Ok(content.doc)
    ELSE Raise("MissingSectionHeaderError")

\* ConfigParser.sections(): every section but the default one.
sections(config) == DOMAIN config \ {"DEFAULT"}

\* ConfigParser.items(s): the defaults, overridden by the options of s.
items(config, s) ==
    Override(IF "DEFAULT" \in DOMAIN config THEN config["DEFAULT"].m ELSE EmptyMap,
             config[s].m)

\* dict.items(): the (key, value) tuples of a mapping.
dict_items(d) == {<<k, d[k]>> : k \in DOMAIN d}

\* tuple == str in Python: a tuple never equals a str.
tuple_eq_str(tup, str) == FALSE

-----------------------------------------------------------------------------
(* read_config                                                             *)

ini_select(config, ini_section) ==
    [s \in {x \in sections(config) : x = ini_section} |-> Dict(items(config, s))]

\* {s: dict(s.items()) for s in config.items() if s == toml_section}: s is
\* an item tuple; a tuple that passed the filter has no .items().
toml_select(config, toml_section) ==
    IF {s \in dict_items(config) : tuple_eq_str(s, toml_section)} = {}
    THEN Ok(EmptyMap)
    ELSE Raise("AttributeError")

read_config(files, file_path, ini_section, toml_section) ==
    LET sp == splitext(file_path)
        compressed == lower(sp[2]) \in COMPRESS_EXT
        bn == IF compressed THEN sp[1] ELSE file_path
        rd == read_file(files, file_path,
                        IF compressed THEN open_compressed(file_path) ELSE "plain")
    IN  IF rd.raised # "none" THEN Raise(rd.raised)
        ELSE IF endswith(bn, <<".", "json">>) THEN json_loads(rd.value)
        ELSE IF endswith(bn, <<".", "yaml">>) \/ endswith(bn, <<".", "yml">>)
             THEN yaml_safe_load(rd.value)
        ELSE IF endswith(bn, <<".", "ini">>)
             THEN LET c == read_string(rd.value)
                  IN  IF c.raised # "none" THEN Raise(c.raised)
                      ELSE Ok(ini_select(c.value, ini_section))
        ELSE IF endswith(bn, <<".", "toml">>)
             THEN LET c == toml_loads(rd.value)
                  IN  IF c.raised # "none" THEN Raise(c.raised)
                      ELSE toml_select(c.value, toml_section)
        ELSE Raise("ValueError")

-----------------------------------------------------------------------------
(* dict_to_string and write_configfile.  An exclude_keys argument is       *)
(* [kind, keys]: a list, tuple, set or dict and the keys it holds.         *)

Excl(kind, keys) == [kind |-> kind, keys |-> keys]

\* exclude_keys.keys() if isinstance(exclude_keys, dict) else exclude_keys
exclude_members(exclude_keys) == exclude_keys.keys

\* list + exclude_keys: only list + list is defined.
list_concat(lst, exclude_keys) ==
    IF exclude_keys.kind = "list"
    THEN Ok(Excl("list", {lst[i] : i \in 1..Len(lst)} \cup exclude_keys.keys))
    ELSE Raise("TypeError")

skim(data, exclude_keys) ==
    Restrict(data, DOMAIN data \ exclude_members(exclude_keys))

\* config[ini_section][key] = str(value) for every key, then config.write:
\* a ConfigParser holds no section but DEFAULT until one is added.
ini_dump(skim_data, ini_section) ==
    IF skim_data = EmptyMap THEN Ok(Text("ini", EmptyMap))
    ELSE IF ini_section # "DEFAULT" THEN Raise("KeyError")
    ELSE Ok(Text("ini", [s \in {"DEFAULT"} |->
                            Dict([k \in DOMAIN skim_data |-> PyStr(skim_data[k])])]))

\* toml.dumps leaves out the keys whose value is None.
toml_dump(skim_data, toml_section) ==
    Text("toml", [s \in {toml_section} |->
                     Dict(Restrict(skim_data,
                                   {k \in DOMAIN skim_data : skim_data[k].t # "none"}))])

\* repr(skim_data); repr({}) is '{}', the very text json.dumps gives for {}.
repr_text(skim_data) ==
    IF skim_data = EmptyMap THEN Text("json", EmptyMap) ELSE Text("repr", skim_data)

dict_to_string(data, exclude_keys, output_format, ini_section, toml_section) ==
    LET skim_data == skim(data, exclude_keys)
    IN  IF endswith(output_format, <<"json">>) THEN Ok(Text("json", skim_data))
        ELSE IF endswith(output_format, <<"yaml">>) \/ endswith(output_format, <<"yml">>)
             THEN Ok(Text("yaml", skim_data))
        ELSE IF endswith(output_format, <<"ini">>) THEN ini_dump(skim_data, ini_section)
        ELSE IF endswith(output_format, <<"toml">>)
             THEN Ok(toml_dump(skim_data, toml_section))
        ELSE Ok(repr_text(skim_data))

write_configfile(files, f_path, data, exclude_keys, f_mode, ini_section, toml_section) ==
    IF f_path.t # "str" \/ Len(f_path.p) < 1 THEN Ok(files)
    ELSE LET sp == splitext(f_path.p)
             bn == IF lower(sp[2]) \notin COMPRESS_EXT THEN f_path.p ELSE sp[1]
             content == dict_to_string(data, exclude_keys, splitext(bn)[2],
                                       ini_section, toml_section)
         IN  IF content.raised # "none" THEN Raise(content.raised)
             ELSE Ok(Override(files,
                              Join(f_path.p) :> [codec |-> open_compressed(f_path.p),
                                                 text |-> content.value,
                                                 mode |-> f_mode]))

-----------------------------------------------------------------------------
(* NamespaceExtd and load_configfile.                                      *)

\* update_from_dict: setattr for every item of data.
update_from_dict(ns, data) == Override(ns, data)

\* to_dict
to_dict(ns) == ns

\* load_configfile without its os.path.exists test.
load_configfile_unguarded(ns, files, conf_path, ini_section, toml_section) ==
    IF conf_path.t = "str" /\ conf_path.p # <<>>
    THEN LET d == read_config(files, conf_path.p, ini_section, toml_section)
         IN  IF d.raised # "none" THEN Raise(d.raised)
             ELSE Ok(update_from_dict(ns, d.value))
    ELSE Ok(ns)

load_configfile(ns, files, conf_path, ini_section, toml_section) ==
    IF conf_path.t = "str" /\ conf_path.p # <<>> /\ exists(files, conf_path.p)
    THEN LET d == read_config(files, conf_path.p, ini_section, toml_section)
         IN  IF d.raised # "none" THEN Raise(d.raised)
             ELSE Ok(update_from_dict(ns, d.value))
    ELSE Ok(ns)

-----------------------------------------------------------------------------
(* The exclusion registry and the option helpers.  A str-or-None argument  *)
(* is [t, p] as a path argument is; a collection argument is [kind, items] *)
(* with its items in iteration order.                                      *)

Range(seq) == {seq[i] : i \in 1..Len(seq)}

\* (x[2:] if x.startswith('--') else (x[1:] if x.startswith('-') else x)).replace('-', '_')
optname(x) ==
    Join(replace_dash(IF startswith(x, <<"-", "-">>) THEN SubSeq(x, 3, Len(x))
                      ELSE IF startswith(x, <<"-">>) THEN SubSeq(x, 2, Len(x))
                      ELSE x))

\* append_once without its membership test.
append_always(reg, name) == Append(reg, name)

\* if not optname in self.write_config_exclude_default: append
append_once(reg, name) == IF name \in Range(reg) THEN reg ELSE Append(reg, name)

\* The loop body of append_write_config_exclude for one item x.
exclude_item(reg, x) ==
    IF x.t # "str" \/ x.p = <<>> THEN reg ELSE append_once(reg, optname(x.p))

RECURSIVE exclude_loop(_, _)
exclude_loop(reg, xs) ==
    IF xs = <<>> THEN reg ELSE exclude_loop(exclude_item(reg, Head(xs)), Tail(xs))

\* options if isinstance(options, (list, tuple, set)) else (options, )
append_write_config_exclude(reg, options) ==
    exclude_loop(reg, IF options.kind \in {"list", "tuple", "set"}
                      THEN options.items
                      ELSE <<options.items[1]>>)

One(x) == [kind |-> "one", items |-> <<x>>]
Coll(kind, xs) == [kind |-> kind, items |-> xs]

\* list_opt_arg(short_opt, long_opt, dest): [opt_key, cargs]; opt_key is a
\* str or None, cargs the option strings.
list_opt_arg(short_opt, long_opt, dest) ==
    LET hasS == short_opt.t = "str" /\ short_opt.p # <<>>
        hasL == long_opt.t = "str" /\ long_opt.p # <<>>
        hasD == dest.t = "str" /\ dest.p # <<>>
        cS == IF startswith(short_opt.p, <<"-">>) THEN SubSeq(short_opt.p, 1, 2)
              ELSE <<"-">> \o SubSeq(short_opt.p, 1, 1)
        cL == IF startswith(long_opt.p, <<"-", "-">>) THEN long_opt.p
              ELSE <<"-", "-">> \o long_opt.p
        kS == IF startswith(short_opt.p, <<"-">>)
              THEN Join(SubSeq(short_opt.p, 2, Len(short_opt.p)))
              ELSE Join(short_opt.p)
        kL == Join(replace_dash(IF startswith(long_opt.p, <<"-", "-">>)
                                THEN SubSeq(long_opt.p, 3, Len(long_opt.p))
                                ELSE long_opt.p))
    IN  [opt_key |-> IF hasD THEN Str(optname(dest.p))
                     ELSE IF hasL THEN Str(kL)
                     ELSE IF hasS THEN Str(kS)
                     ELSE NoneVal,
         cargs |-> (IF hasS THEN <<cS>> ELSE <<>>) \o (IF hasL THEN <<cL>> ELSE <<>>)]

\* isinstance(key, str) and key
is_key(key) == key.t = "str" /\ key.s # ""

\* An argparse action: its kind, default and const.
Action(kind, default, const) == [kind |-> kind, default |-> default, const |-> const]

\* write_config that passes on exclude_keys alone, without the registry.
write_config_without_defaults(ns, reg, files, f_path, exclude_keys) ==
    LET ex == list_concat(<<>>, exclude_keys)
    IN  IF ex.raised # "none" THEN Raise(ex.raised)
        ELSE write_configfile(files, f_path, to_dict(ns), ex.value, F_MODE,
                              INI_SECTION, TOML_SECTION)

\* write_config(f_path, exclude_keys): the arguments are evaluated, the list
\* concatenation first, before write_configfile is entered.
write_config(ns, reg, files, f_path, exclude_keys) ==
    LET ex == list_concat(reg, exclude_keys)
    IN  IF ex.raised # "none" THEN Raise(ex.raised)
        ELSE write_configfile(files, f_path, to_dict(ns), ex.value, F_MODE,
                              INI_SECTION, TOML_SECTION)

\* skimmed_args_to_string(exclude_keys, output_format): the list
\* concatenation is evaluated before dict_to_string is entered.
skimmed_args_to_string(ns, reg, exclude_keys, output_format) ==
    LET ex == list_concat(reg, exclude_keys)
    IN  IF ex.raised # "none" THEN Raise(ex.raised)
        ELSE dict_to_string(to_dict(ns), ex.value, output_format,
                            INI_SECTION, TOML_SECTION)

\* save_config_action(): the parser itself is passed where write_config
\* takes f_path.
save_config_action(ns, reg, alist, files) ==
    IF "save_configfile" \notin DOMAIN alist THEN Raise("KeyError")
    ELSE IF alist["save_configfile"].t # "str"
            \/ alist["save_configfile"].s \notin DOMAIN ns THEN Raise("KeyError")
    ELSE LET save_path == ns[alist["save_configfile"].s]
         IN  IF save_path.t = "str" /\ save_path.s # ""
             THEN write_config(ns, reg, files, PathSelf, Excl("list", {}))
             ELSE Ok(files)

\* load_config(conf_path)
load_config(ns, files, conf_path) ==
    load_configfile(ns, files, conf_path, INI_SECTION, TOML_SECTION)

-----------------------------------------------------------------------------
(* argparse's parse_args, by what it does with the registered actions.  A  *)
(* command line is a sequence of items [opt, arg]: the dest of the option  *)
(* given and its argument (a str, or None when none is given).             *)

Item(opt, arg) == [opt |-> opt, arg |-> arg]

Parsed(e, ns, msg) == [raised |-> e, ns |-> ns, msg |-> msg]

\* ConfigActionExtd.__call__(parser, namespace, values)
ConfigActionExtd(ns, files, values) ==
    IF exists(files, values)
    THEN LET conf_data == read_config(files, values, INI_SECTION, TOML_SECTION)
         IN  IF conf_data.raised # "none" THEN Parsed(conf_data.raised, ns, "")
             ELSE Parsed("none", update_from_dict(ns, conf_data.value), "")
    ELSE Parsed("SystemExit2", ns, "Config file not found")

\* What argparse does with one recognized item.
take_action(ns, act, files, item) ==
    IF act.kind = "store_true" THEN Parsed("none", Override(ns, item.opt :> TrueVal), "")
    ELSE IF act.kind = "store_opt"
         THEN Parsed("none",
                     Override(ns, item.opt :> IF item.arg.t = "str"
                                              THEN Str(Join(item.arg.p))
                                              ELSE act.const), "")
    ELSE IF item.arg.t # "str" THEN Parsed("SystemExit2", ns, "expected one argument")
    ELSE IF act.kind = "config" THEN ConfigActionExtd(ns, files, item.arg.p)
    ELSE Parsed("none", Override(ns, item.opt :> Int(Join(item.arg.p))), "")

\* The items in command-line order; an item of no registered action is
\* left over and reported once all the others are consumed.
RECURSIVE consume(_, _, _, _, _)
consume(ns, acts, files, args, extras) ==
    IF args = <<>>
    THEN IF extras THEN Parsed("SystemExit2", ns, "unrecognized arguments")
         ELSE Parsed("none", ns, "")
    ELSE IF Head(args).opt \notin DOMAIN acts
         THEN consume(ns, acts, files, Tail(args), TRUE)
    ELSE LET r == take_action(ns, acts[Head(args).opt], files, Head(args))
         IN  IF r.raised # "none" THEN r
             ELSE consume(r.ns, acts, files, Tail(args), extras)

\* A default is set only for a dest the namespace does not hold yet.
set_defaults(ns, acts) ==
    [k \in DOMAIN ns \cup DOMAIN acts |-> IF k \in DOMAIN ns THEN ns[k] ELSE acts[k].default]

\* help_action()
help_action(ns, alist) ==
    IF "help" \notin DOMAIN alist THEN Parsed("KeyError", ns, "")
    ELSE IF alist["help"].t = "none" THEN Parsed("none", ns, "")
    ELSE IF alist["help"].s \notin DOMAIN ns THEN Parsed("KeyError", ns, "")
    ELSE IF Truthy(ns[alist["help"].s]) THEN Parsed("SystemExit0", ns, "help")
    ELSE Parsed("none", ns, "")

\* parse_args(args, action_help)
parse_args(ns, acts, alist, files, args, action_help) ==
    LET r == consume(set_defaults(ns, acts), acts, files, args, FALSE)
    IN  IF r.raised # "none" THEN r
        ELSE IF action_help THEN help_action(r.ns, alist)
        ELSE r

-----------------------------------------------------------------------------
(* The values, documents and files the model draws its inputs from.        *)

Sections == {"DEFAULT", "other"}

\* The mappings handed to the encoder: {}, {a: 1} and {a: 1, b: 'x'}.
Mappings ==
    {EmptyMap,
     [k \in {"a"} |-> Int("1")],
     [k \in {"a", "b"} |-> IF k = "a" THEN Int("1") ELSE Str("x")]}

\* The files present before the program starts:
\*   conf.json   {"a": 1, "b": 2}
\*   conf.ini    [DEFAULT] a = 1   [other] b = 2
\*   conf.toml   [DEFAULT] a = 1   [other] b = 2
\*   notes.txt   a file that is no config file
InitialFiles ==
    ("conf.json" :> [codec |-> "plain", mode |-> F_MODE,
                     text |-> Text("json", [k \in {"a", "b"} |->
                                  IF k = "a" THEN Int("1") ELSE Int("2")])])
    @@ ("conf.ini" :> [codec |-> "plain", mode |-> F_MODE,
                       text |-> Text("ini", [s \in Sections |->
                                    IF s = "DEFAULT"
                                    THEN Dict([k \in {"a"} |-> Str("1")])
                                    ELSE Dict([k \in {"b"} |-> Str("2")])])])
    @@ ("conf.toml" :> [codec |-> "plain", mode |-> F_MODE,
                        text |-> Text("toml", [s \in Sections |->
                                     IF s = "DEFAULT"
                                     THEN Dict([k \in {"a"} |-> Int("1")])
                                     ELSE Dict([k \in {"b"} |-> Int("2")])])])
    @@ ("notes.txt" :> [codec |-> "plain", mode |-> F_MODE,
                        text |-> Text("repr", [k \in {"a"} |-> Int("1")])])

ConfJson == <<"conf", ".", "json">>
ConfIni == <<"conf", ".", "ini">>
ConfToml == <<"conf", ".", "toml">>
NotesTxt == <<"notes", ".", "txt">>
NoFile == <<"nofile", ".", "json">>

ReadPaths == {ConfJson, ConfIni, ConfToml, NotesTxt, NoFile}

\* Where the model writes: every supported extension, a compressed one, two
\* unsupported ones and no extension at all.
WritePaths ==
    {<<"out", ".", "json">>, <<"out", ".", "yaml">>, <<"out", ".", "yml">>,
     <<"out", ".", "ini">>, <<"out", ".", "toml">>,
     <<"out", ".", "json", ".", "gz">>, <<"out", ".", "txt">>,
     <<"out", ".", "x", "json">>, <<"out">>}

ExcludeArgs == {Excl("list", {}), Excl("set", {"b"})}

\* The files written since the start.
written(files) == DOMAIN files \ DOMAIN InitialFiles

MayWrite(files, p) ==
    Join(p) \in written(files) \/ Cardinality(written(files)) < MaxFiles

-----------------------------------------------------------------------------
(* SpecCodec: the class methods applied to inputs drawn from the sets      *)
(* above.  The parser's own state is not touched.                          *)

InitCodec ==
    /\ namespace = EmptyMap
    /\ write_config_exclude_default = <<>>
    /\ option_key_alist = EmptyMap
    /\ actions = EmptyMap
    /\ fs = InitialFiles
    /\ raised = "none"
    /\ ret = EmptyMap
    /\ lastOp = [op |-> "init"]
    /\ pc = "setup"

parserUnchanged ==
    UNCHANGED <<write_config_exclude_default, option_key_alist, actions, pc>>

\* cls.write_configfile(f_path, data, exclude_keys, ini_section=s, toml_section=s)
WriteConfigfile ==
    \E data \in Mappings, e \in ExcludeArgs, p \in WritePaths, s \in Sections :
        /\ MayWrite(fs, p)
        /\ LET r == write_configfile(fs, PathStr(p), data, e, F_MODE, s, s)
           IN  /\ raised' = r.raised
               /\ fs' = IF r.raised = "none" THEN r.value ELSE fs
               /\ ret' = EmptyMap
               /\ lastOp' = [op |-> "write_configfile", path |-> p, data |-> data,
                             excl |-> e, section |-> s]
               /\ UNCHANGED namespace
               /\ parserUnchanged

\* cls.read_config(file_path, ini_section=s, toml_section=s)
ReadConfig ==
    \E p \in ReadPaths \cup WritePaths, s \in Sections :
        LET r == read_config(fs, p, s, s)
        IN  /\ raised' = r.raised
            /\ ret' = r.value
            /\ lastOp' = [op |-> "read_config", path |-> p, section |-> s]
            /\ UNCHANGED <<namespace, fs>>
            /\ parserUnchanged

\* ns = NamespaceExtd(); cls.load_configfile(ns, conf_path, ini_section=s, toml_section=s)
LoadConfigfile ==
    \E p \in ReadPaths, s \in Sections :
        LET r == load_configfile(EmptyMap, fs, PathStr(p), s, s)
        IN  /\ raised' = r.raised
            /\ namespace' = IF r.raised = "none" THEN r.value ELSE EmptyMap
            /\ ret' = EmptyMap
            /\ lastOp' = [op |-> "load_configfile", path |-> p, section |-> s]
            /\ UNCHANGED fs
            /\ parserUnchanged

\* read_config of the file that write_configfile made of `data` in an empty
\* directory, with the same section name on both sides.
round_trip(data, p, s) ==
    LET w == write_configfile(EmptyMap, PathStr(p), data, Excl("list", {}), F_MODE, s, s)
    IN  IF w.raised # "none" THEN Raise(w.raised)
        ELSE read_config(w.value, p, s, s)

RoundTripPaths ==
    {<<"out", ".", "json">>, <<"out", ".", "yaml">>, <<"out", ".", "yml">>,
     <<"out", ".", "ini">>, <<"out", ".", "toml">>,
     <<"out", ".", "json", ".", "gz">>}

RoundTrip ==
    \E data \in Mappings, p \in RoundTripPaths, s \in Sections :
        LET r == round_trip(data, p, s)
        IN  /\ raised' = r.raised
            /\ ret' = r.value
            /\ lastOp' = [op |-> "round_trip", path |-> p, data |-> data, section |-> s]
            /\ UNCHANGED <<namespace, fs>>
            /\ parserUnchanged

NextCodec ==
    \/ WriteConfigfile
    \/ ReadConfig
    \/ LoadConfigfile
    \/ RoundTrip

SpecCodec == InitCodec /\ [][NextCodec]_vars

-----------------------------------------------------------------------------
(* The parser object: construction and its methods.  An exception ends the *)
(* calling program (pc = "exited"); parse_args takes it from "setup" to    *)
(* "parsed".                                                               *)

Running == pc # "exited"

After(e) == IF e = "none" THEN pc ELSE "exited"

\* ArgumentParserExtd(conf_path=conf_path, exclude_save=exclude_save, add_help=False)
Construct(conf_path, exclude_save) ==
    LET r == load_config(EmptyMap, InitialFiles, conf_path)
    IN  /\ r.raised = "none"
        /\ option_key_alist = EmptyMap
        /\ actions = EmptyMap
        /\ namespace = r.value
        /\ write_config_exclude_default = append_write_config_exclude(<<>>, exclude_save)
        /\ fs = InitialFiles
        /\ raised = "none"
        /\ ret = EmptyMap
        /\ lastOp = [op |-> "__init__", path |-> conf_path]
        /\ pc = "setup"

\* append_write_config_exclude(options)
AppendWriteConfigExclude(options) ==
    /\ Running
    /\ write_config_exclude_default' =
           append_write_config_exclude(write_config_exclude_default, options)
    /\ raised' = "none"
    /\ ret' = EmptyMap
    /\ lastOp' = [op |-> "append_write_config_exclude", options |-> options]
    /\ UNCHANGED <<namespace, option_key_alist, actions, fs, pc>>

\* self.add_argument(*cargs, ...) for the dest `key`: argparse refuses an
\* option string that is registered already.
Register(key, act, then_exclude) ==
    IF key \in DOMAIN actions
    THEN /\ raised' = "ArgumentError"
         /\ pc' = "exited"
         /\ UNCHANGED <<actions, write_config_exclude_default>>
    ELSE /\ raised' = "none"
         /\ actions' = Override(actions, key :> act)
         /\ write_config_exclude_default' =
                IF then_exclude
                THEN append_write_config_exclude(write_config_exclude_default,
                                                 One(PathStr(<<key>>)))
                ELSE write_config_exclude_default
         /\ UNCHANGED pc

\* add_argument('--a', type=int)
AddArgument ==
    /\ pc = "setup"
    /\ Register("a", Action("store", NoneVal, NoneVal), FALSE)
    /\ ret' = EmptyMap
    /\ lastOp' = [op |-> "add_argument"]
    /\ UNCHANGED <<namespace, option_key_alist, fs>>

\* add_argument_help()
AddArgumentHelp ==
    LET l == list_opt_arg(PathStr(<<"-", "h">>), PathStr(<<"-", "-", "help">>), PathNone)
    IN  /\ pc = "setup"
        /\ option_key_alist' = Override(option_key_alist, "help" :> l.opt_key)
        /\ Register(l.opt_key.s, Action("store_true", FalseVal, NoneVal), is_key(l.opt_key))
        /\ ret' = EmptyMap
        /\ lastOp' = [op |-> "add_argument_help"]
        /\ UNCHANGED <<namespace, fs>>

\* add_argument_config(): the action class it names, ConfigActionExt, is no
\* attribute of the class (the class is ConfigActionExtd), so evaluating the
\* arguments of add_argument raises.
AddArgumentConfig ==
    LET l == list_opt_arg(PathStr(<<"-", "C">>), PathStr(<<"-", "-", "config">>), PathNone)
    IN  /\ pc = "setup"
        /\ option_key_alist' = Override(option_key_alist, "configfile" :> l.opt_key)
        /\ IF Len(l.cargs) > 0
           THEN /\ raised' = "AttributeError"
                /\ pc' = "exited"
                /\ UNCHANGED write_config_exclude_default
           ELSE /\ raised' = "none"
                /\ write_config_exclude_default' =
                       IF is_key(l.opt_key)
                       THEN append_write_config_exclude(write_config_exclude_default,
                                                        One(PathStr(<<l.opt_key.s>>)))
                       ELSE write_config_exclude_default
                /\ UNCHANGED pc
        /\ ret' = EmptyMap
        /\ lastOp' = [op |-> "add_argument_config"]
        /\ UNCHANGED <<namespace, actions, fs>>

\* add_argument('-C', '--config', type=str, action=ArgumentParserExtd.ConfigActionExtd)
AddConfigAction ==
    /\ pc = "setup"
    /\ Register("config", Action("config", NoneVal, NoneVal), FALSE)
    /\ ret' = EmptyMap
    /\ lastOp' = [op |-> "add_argument"]
    /\ UNCHANGED <<namespace, option_key_alist, fs>>

\* add_argument_save_config(default_path=default_path)
AddArgumentSaveConfig(default_path) ==
    LET l == list_opt_arg(PathStr(<<"-", "S">>),
                          PathStr(<<"-", "-", "save", "-", "config">>), PathNone)
    IN  /\ pc = "setup"
        /\ option_key_alist' = Override(option_key_alist, "save_configfile" :> l.opt_key)
        /\ Register(l.opt_key.s,
                    Action("store_opt", NoneVal,
                           IF default_path.t = "str" THEN Str(Join(default_path.p))
                           ELSE NoneVal),
                    is_key(l.opt_key))
        /\ ret' = EmptyMap
        /\ lastOp' = [op |-> "add_argument_save_config"]
        /\ UNCHANGED <<namespace, fs>>

\* load_config(conf_path)
LoadConfig(conf_path) ==
    LET r == load_config(namespace, fs, conf_path)
    IN  /\ Running
        /\ raised' = r.raised
        /\ namespace' = IF r.raised = "none" THEN r.value ELSE namespace
        /\ pc' = After(r.raised)
        /\ ret' = EmptyMap
        /\ lastOp' = [op |-> "load_config", path |-> conf_path]
        /\ UNCHANGED <<write_config_exclude_default, option_key_alist, actions, fs>>

\* parse_args(args, action_help=action_help)
ParseArgs(args, action_help) ==
    LET r == parse_args(namespace, actions, option_key_alist, fs, args, action_help)
    IN  /\ pc = "setup"
        /\ raised' = r.raised
        /\ namespace' = r.ns
        /\ pc' = IF r.raised = "none" THEN "parsed" ELSE "exited"
        /\ ret' = Str(r.msg)
        /\ lastOp' = [op |-> "parse_args", args |-> args, action_help |-> action_help]
        /\ UNCHANGED <<write_config_exclude_default, option_key_alist, actions, fs>>

\* save_config_action()
SaveConfigAction ==
    LET r == save_config_action(namespace, write_config_exclude_default,
                                option_key_alist, fs)
    IN  /\ pc = "parsed"
        /\ raised' = r.raised
        /\ fs' = IF r.raised = "none" THEN r.value ELSE fs
        /\ pc' = After(r.raised)
        /\ ret' = EmptyMap
        /\ lastOp' = [op |-> "save_config_action"]
        /\ UNCHANGED <<namespace, write_config_exclude_default, option_key_alist,
                       actions>>

\* write_config(f_path, exclude_keys=exclude_keys)
WriteConfig(f_path, exclude_keys) ==
    LET r == write_config(namespace, write_config_exclude_default, fs, f_path,
                          exclude_keys)
    IN  /\ Running
        /\ f_path.t = "str" /\ f_path.p # <<>> => MayWrite(fs, f_path.p)
        /\ raised' = r.raised
        /\ fs' = IF r.raised = "none" THEN r.value ELSE fs
        /\ pc' = After(r.raised)
        /\ ret' = EmptyMap
        /\ lastOp' = [op |-> "write_config", path |-> f_path, excl |-> exclude_keys]
        /\ UNCHANGED <<namespace, write_config_exclude_default, option_key_alist,
                       actions>>

\* skimmed_args_to_string(exclude_keys=exclude_keys, output_format=output_format)
SkimmedArgsToString(exclude_keys, output_format) ==
    LET r == skimmed_args_to_string(namespace, write_config_exclude_default,
                                    exclude_keys, output_format)
    IN  /\ Running
        /\ raised' = r.raised
        /\ ret' = IF r.raised = "none" THEN r.value ELSE EmptyMap
        /\ pc' = After(r.raised)
        /\ lastOp' = [op |-> "skimmed_args_to_string", excl |-> exclude_keys,
                      format |-> output_format]
        /\ UNCHANGED <<namespace, write_config_exclude_default, option_key_alist,
                       actions, fs>>

\* self.namespace.<key> = value (NamespaceExtd.__setattr__)
Assign(key, value) ==
    /\ Running
    /\ namespace' = Override(namespace, key :> value)
    /\ raised' = "none"
    /\ ret' = EmptyMap
    /\ lastOp' = [op |-> "setattr"]
    /\ UNCHANGED <<write_config_exclude_default, option_key_alist, actions, fs, pc>>

-----------------------------------------------------------------------------
(* Spec: a program that constructs the parser, declares its options, loads *)
(* a default config file, parses one command line and then calls           *)
(* save_config_action.                                                     *)

OutJson == <<"out", ".", "json">>

\* The command-line items: --a 9, -C conf.json, -C nofile.json, -S,
\* -S out.json, -h.
Items ==
    {Item("a", PathStr(<<"9">>)),
     Item("config", PathStr(ConfJson)),
     Item("config", PathStr(NoFile)),
     Item("save_config", PathNone),
     Item("save_config", PathStr(OutJson)),
     Item("help", PathNone)}

SeqsUpTo(S, n) == UNION {[1..m -> S] : m \in 0..n}

CommandLines == SeqsUpTo(Items, MaxArgs)

Init ==
    \E conf_path \in {PathNone, PathStr(ConfJson)} : Construct(conf_path, One(PathNone))

Next ==
    \/ AddArgument
    \/ AddArgumentHelp
    \/ AddArgumentConfig
    \/ AddConfigAction
    \/ \E default_path \in {PathNone, PathStr(OutJson)} : AddArgumentSaveConfig(default_path)
    \/ \E conf_path \in {PathNone, PathStr(<<>>), PathStr(NoFile), PathStr(ConfJson)} :
          pc = "setup" /\ LoadConfig(conf_path)
    \/ \E args \in CommandLines, action_help \in BOOLEAN : ParseArgs(args, action_help)
    \/ SaveConfigAction

Spec == Init /\ [][Next]_vars

-----------------------------------------------------------------------------
(* SpecStore: a constructed parser whose Namespace is assigned to and      *)
(* loaded into, whose registry grows, and which is written out.            *)

OutIni == <<"out", ".", "ini">>

\* 'b', '-b', '--b' and 'a'
StoreExcludes ==
    {One(PathStr(<<"b">>)), One(PathStr(<<"-", "b">>)), One(PathStr(<<"-", "-", "b">>)),
     One(PathStr(<<"a">>))}

StoreLoads == {PathNone, PathStr(<<>>), PathStr(NoFile), PathStr(ConfJson)}

StoreWrites == {PathStr(OutJson), PathStr(OutIni), PathStr(<<>>)}

StoreExcludeKeys == {Excl("list", {}), Excl("tuple", {"a"})}

InitStore == Construct(PathNone, One(PathNone))

StoreCommandLines == SeqsUpTo({Item("a", PathStr(<<"9">>))}, MaxArgs)

NextStore ==
    \/ AddArgument
    \/ \E args \in StoreCommandLines : ParseArgs(args, FALSE)
    \/ \E options \in StoreExcludes : AppendWriteConfigExclude(options)
    \/ \E key \in {"a", "b"} : Assign(key, Int("7"))
    \/ \E conf_path \in StoreLoads : LoadConfig(conf_path)
    \/ \E f_path \in StoreWrites, exclude_keys \in StoreExcludeKeys :
          WriteConfig(f_path, exclude_keys)

SpecStore == InitStore /\ [][NextStore]_vars

-----------------------------------------------------------------------------
(* SpecRegistry: append_write_config_exclude alone, with names in every    *)
(* spelling, singly and in collections.                                    *)

\* '--a-b', '-a-b', 'a_b', '--c', '' and None
Spellings ==
    {PathStr(<<"-", "-", "a", "-", "b">>), PathStr(<<"-", "a", "-", "b">>),
     PathStr(<<"a", "_", "b">>), PathStr(<<"-", "-", "c">>), PathStr(<<>>), PathNone}

RegistryInputs ==
    {One(x) : x \in Spellings}
    \cup {Coll(kind, xs) : kind \in {"list", "set"}, xs \in SeqsUpTo(Spellings, MaxNames)}

InitRegistry ==
    \E exclude_save \in {One(PathNone), One(PathStr(<<"-", "-", "c">>))} :
        Construct(PathNone, exclude_save)

NextRegistry ==
    \E options \in RegistryInputs : AppendWriteConfigExclude(options)

SpecRegistry == InitRegistry /\ [][NextRegistry]_vars

-----------------------------------------------------------------------------
(* SpecPersist: the two persist calls, write_config and                    *)
(* skimmed_args_to_string, with exclude_keys of every accepted kind.       *)

PersistExcludeKeys ==
    {Excl(kind, keys) : kind \in {"list", "tuple", "set", "dict"},
                        keys \in {{}, {"a"}, {"c"}}}

PersistFormats == {<<"json">>, <<"yaml">>}

InitPersist ==
    \E exclude_save \in {One(PathNone), One(PathStr(<<"-", "-", "b">>))} :
        Construct(PathStr(ConfJson), exclude_save)

NextPersist ==
    \/ \E options \in {One(PathStr(<<"a">>)), One(PathStr(<<"b">>))} :
          AppendWriteConfigExclude(options)
    \/ \E key \in {"a", "c"} : Assign(key, Int("7"))
    \/ \E exclude_keys \in PersistExcludeKeys, output_format \in PersistFormats :
          SkimmedArgsToString(exclude_keys, output_format)
    \/ \E exclude_keys \in PersistExcludeKeys : WriteConfig(PathStr(OutJson), exclude_keys)

SpecPersist == InitPersist /\ [][NextPersist]_vars

-----------------------------------------------------------------------------
(* What the claims about the parser speak of.                              *)

\* What the file at conf_path defines for the section the parser reads.
FileDefines(files, conf_path, section) ==
    IF conf_path.t = "str" /\ conf_path.p # <<>> /\ exists(files, conf_path.p)
    THEN LET text == files[Join(conf_path.p)].text
         IN  IF text.fmt \in {"json", "yaml"} THEN text.doc
             ELSE IF text.fmt \in {"ini", "toml"} /\ section \in DOMAIN text.doc
                  THEN text.doc[section].m
             ELSE EmptyMap
    ELSE EmptyMap

\* What the config files that the flags of a command line name define, the
\* later file overriding the earlier.
RECURSIVE FlagDefines(_, _, _, _)
FlagDefines(def, files, acts, args) ==
    IF args = <<>> THEN def
    ELSE FlagDefines(IF Head(args).opt \in DOMAIN acts
                        /\ acts[Head(args).opt].kind = "config"
                     THEN Override(def, FileDefines(files, Head(args).arg, INI_SECTION))
                     ELSE def,
                     files, acts, Tail(args))

\* The positions of a command line that set key k explicitly.
CliSets(acts, args, k) ==
    {i \in 1..Len(args) : args[i].opt = k /\ k \in DOMAIN acts /\ acts[k].kind = "store"}

CliKeys(acts, args) == {k \in {"a"} : CliSets(acts, args, k) # {}}

\* The value the last such position gives.
CliValue(acts, args, k) ==
    LET i == CHOOSE j \in CliSets(acts, args, k) : \A l \in CliSets(acts, args, k) : l <= j
    IN  Int(Join(args[i].arg.p))

\* The keys a written text holds: those of the document, or of its sections.
TextKeys(text) ==
    IF text.fmt \in {"ini", "toml"}
    THEN UNION {DOMAIN text.doc[sec].m : sec \in DOMAIN text.doc}
    ELSE DOMAIN text.doc

\* C1: Precedence.  In the Namespace parse_args returns, every key the
\* command line sets holds the command-line value; every other key that a
\* config file named by the config-path flag defines holds the file's value;
\* and every other key the Namespace held before (from the file loaded at
\* construction or by load_config) holds the value it had.
C1_Precedence ==
    [][(lastOp'.op = "parse_args" /\ raised' = "none") =>
        LET args == lastOp'.args
            cli == CliKeys(actions, args)
            def == FlagDefines(EmptyMap, fs, actions, args)
        IN  /\ \A k \in cli :
                  k \in DOMAIN namespace' /\ namespace'[k] = CliValue(actions, args, k)
            /\ \A k \in DOMAIN def \ cli :
                  k \in DOMAIN namespace' /\ namespace'[k] = def[k]
            /\ \A k \in DOMAIN namespace \ (cli \cup DOMAIN def) :
                  k \in DOMAIN namespace' /\ namespace'[k] = namespace[k]]_vars

\* The name a spelling stands for: the spelling without its leading dashes,
\* its inner dashes as underscores.
NameOf ==
    (<<"b">> :> "b") @@ (<<"-", "b">> :> "b") @@ (<<"-", "-", "b">> :> "b")
    @@ (<<"a">> :> "a") @@ (<<"-", "-", "c">> :> "c")
    @@ (<<"-", "-", "a", "-", "b">> :> "a_b") @@ (<<"-", "a", "-", "b">> :> "a_b")
    @@ (<<"a", "_", "b">> :> "a_b")

\* The names an argument of append_write_config_exclude registers.
NamesIn(options) ==
    {NameOf[options.items[i].p] :
        i \in {j \in 1..Len(options.items) :
                  options.items[j].t = "str" /\ options.items[j].p # <<>>}}

Count(seq, x) == Cardinality({i \in 1..Len(seq) : seq[i] = x})

\* C2: Exclusion.  A name registered in any spelling is in the registry under
\* its normalized name from then on, and the file a write_config call writes
\* holds no key that is in the registry, whatever the Namespace holds.
C2_Exclusion ==
    /\ [](lastOp.op = "append_write_config_exclude"
          => NamesIn(lastOp.options) \subseteq Range(write_config_exclude_default))
    /\ [][Range(write_config_exclude_default)
             \subseteq Range(write_config_exclude_default')]_vars
    /\ []((/\ lastOp.op = "write_config"
           /\ raised = "none"
           /\ lastOp.path.t = "str"
           /\ lastOp.path.p # <<>>)
          => /\ exists(fs, lastOp.path.p)
             /\ TextKeys(fs[Join(lastOp.path.p)].text)
                   \cap Range(write_config_exclude_default) = {})

\* C2's case: 'b' is registered, the Namespace holds b, and write_config has
\* written out.json.
C2_Witness ==
    /\ lastOp.op = "write_config"
    /\ raised = "none"
    /\ lastOp.path = PathStr(OutJson)
    /\ "b" \in Range(write_config_exclude_default)
    /\ "b" \in DOMAIN namespace
    /\ "a" \in TextKeys(fs["out.json"].text)

\* A path load_config takes for a missing default config.
MissingConfig(conf_path) ==
    conf_path.t # "str" \/ conf_path.p = <<>> \/ ~exists(fs, conf_path.p)

\* C6: Missing default config.  load_config with None, an empty path or the
\* path of no file returns without raising and leaves the Namespace as it was.
C6_MissingDefaultConfig ==
    [][(lastOp'.op = "load_config" /\ MissingConfig(lastOp'.path))
       => raised' = "none" /\ namespace' = namespace /\ pc' = pc]_vars

\* C6's case: load_config of a path of no file on a Namespace that holds keys.
C6_Witness ==
    /\ lastOp.op = "load_config"
    /\ lastOp.path = PathStr(NoFile)
    /\ raised = "none"
    /\ DOMAIN namespace = {"a", "b"}

\* C8: Exclusion registry invariant.  The registry holds normalized names
\* only and each at most once; a call leaves every name it registers present
\* exactly once, also when the call or an earlier one gave it twice or in
\* another spelling; and no call removes a name.
C8_RegistryInvariant ==
    /\ [](/\ Range(write_config_exclude_default) \subseteq {"a_b", "c"}
          /\ \A n \in Range(write_config_exclude_default) :
                Count(write_config_exclude_default, n) = 1)
    /\ [](lastOp.op = "append_write_config_exclude"
          => \A n \in NamesIn(lastOp.options) :
                Count(write_config_exclude_default, n) = 1)
    /\ [][Range(write_config_exclude_default)
             \subseteq Range(write_config_exclude_default')]_vars

\* C8's case: one call gives a_b in two spellings, and c is registered too.
C8_Witness ==
    /\ lastOp.op = "append_write_config_exclude"
    /\ lastOp.options = Coll("list", <<PathStr(<<"-", "-", "a", "-", "b">>),
                                       PathStr(<<"a", "_", "b">>)>>)
    /\ write_config_exclude_default = <<"c", "a_b">>

\* A persist call that produces output: skimmed_args_to_string, or
\* write_config with a path to write to.
PersistCall(op) ==
    \/ op.op = "skimmed_args_to_string"
    \/ op.op = "write_config" /\ op.path.t = "str" /\ op.path.p # <<>>

\* The text the persist call has produced.
PersistOutput ==
    IF lastOp.op = "skimmed_args_to_string" THEN ret ELSE fs[Join(lastOp.path.p)].text

\* C11: Effective exclusions.  A persist call with exclude_keys of any
\* accepted kind (list, tuple, set, dict) completes, and the keys of its
\* output are the keys of the Namespace less the registry's names and the
\* keys of exclude_keys; and no persist call changes the registry.
C11_EffectiveExclusions ==
    /\ [](PersistCall(lastOp)
          => /\ raised = "none"
             /\ TextKeys(PersistOutput) =
                    DOMAIN namespace \ (Range(write_config_exclude_default)
                                           \cup lastOp.excl.keys))
    /\ [][PersistCall(lastOp')
             => write_config_exclude_default' = write_config_exclude_default]_vars

\* C4: Save trigger.  After save_config_action on a parser with the
\* save-config option: if the option holds a non-empty path P, the file at P
\* holds the Namespace minus the excluded keys; otherwise no file is written.
C4_SaveTrigger ==
    (lastOp.op = "save_config_action" /\ "save_configfile" \in DOMAIN option_key_alist)
    => LET P == namespace[option_key_alist["save_configfile"].s]
       IN  /\ raised = "none"
           /\ IF P.t = "str" /\ P.s # ""
              THEN /\ P.s \in DOMAIN fs
                   /\ fs[P.s].text =
                         Text("json", Restrict(namespace,
                                  DOMAIN namespace \ Range(write_config_exclude_default)))
              ELSE fs = InitialFiles

\* A command line that passes the config-path flag a path of no file.
NamesMissingConfig(args) ==
    \E i \in 1..Len(args) :
        args[i].opt = "config" /\ args[i].arg.t = "str" /\ ~exists(fs, args[i].arg.p)

\* C7: Missing explicit config.  add_argument_config registers the
\* config-path flag with ConfigActionExtd, and on a parser that has it a
\* command line that passes the flag a path of no file ends in parser.error
\* (exit status 2) with nothing merged from a config file.
C7_MissingExplicitConfig ==
    /\ lastOp.op = "add_argument_config"
       => /\ raised = "none"
          /\ "config" \in DOMAIN actions
          /\ actions["config"].kind = "config"
    /\ (/\ lastOp.op = "parse_args"
        /\ "configfile" \in DOMAIN option_key_alist
        /\ NamesMissingConfig(lastOp.args))
       => raised = "SystemExit2" /\ ret = Str("Config file not found")

-----------------------------------------------------------------------------
(* What the claims about the class methods speak of.                       *)

SupportedExt ==
    {<<".", "json">>, <<".", "yaml">>, <<".", "yml">>, <<".", "ini">>, <<".", "toml">>}

\* The extension of p after a compression suffix is stripped.
FormatExt(p) ==
    LET sp == splitext(p)
    IN  IF sp[2] \in COMPRESS_EXT THEN splitext(sp[1])[2] ELSE sp[2]

\* Every value of m as its string representation.
Stringified(m) == [k \in DOMAIN m |-> Str(m[k].s)]

\* The document of the file at p.
DocAt(p) == fs[Join(p)].text.doc

\* A decoded result, with a {s: {...}} wrapper around the section removed.
Unwrapped(m, s) ==
    IF s \in DOMAIN m /\ m[s].t = "dict" THEN m[s].m ELSE m

\* C3: Round-trip.  read_config, with section s, of the text dict_to_string
\* made of the mapping M for a supported format and section s returns M; for
\* INI it returns M with every value as its string representation.
C3_RoundTrip ==
    lastOp.op = "round_trip" =>
        /\ raised = "none"
        /\ ret = IF FormatExt(lastOp.path) = <<".", "ini">>
                 THEN Stringified(lastOp.data)
                 ELSE lastOp.data

\* C5: Section isolation.  read_config of an INI file with several sections,
\* for a section s of the file, returns every key of s with its value, and
\* no key that only another section defines (a key the parser inherits from
\* [DEFAULT] is let through here).
C5_SectionIsolation ==
    (/\ lastOp.op = "read_config"
     /\ exists(fs, lastOp.path)
     /\ fs[Join(lastOp.path)].text.fmt = "ini"
     /\ FormatExt(lastOp.path) = <<".", "ini">>
     /\ Cardinality(DOMAIN DocAt(lastOp.path)) > 1
     /\ lastOp.section \in DOMAIN DocAt(lastOp.path))
    => /\ raised = "none"
       /\ LET doc == DocAt(lastOp.path)
              own == doc[lastOp.section].m
              got == Unwrapped(ret, lastOp.section)
          IN  /\ \A k \in DOMAIN own : k \in DOMAIN got /\ got[k] = own[k]
              /\ \A k \in DOMAIN got :
                    k \in DOMAIN own \/ k \in DOMAIN doc["DEFAULT"].m

\* C9: Extension asymmetry.  With an extension that, after a compression
\* suffix is stripped, is none of json, yaml, yml, ini, toml: read_config
\* raises, and write_configfile does not raise and writes the repr of the
\* filtered mapping.
C9_ExtensionAsymmetry ==
    /\ (lastOp.op = "read_config" /\ FormatExt(lastOp.path) \notin SupportedExt)
       => raised # "none" /\ ret = EmptyMap
    /\ (lastOp.op = "write_configfile" /\ FormatExt(lastOp.path) \notin SupportedExt)
       => /\ raised = "none"
          /\ exists(fs, lastOp.path)
          /\ fs[Join(lastOp.path)].text =
                repr_text(Restrict(lastOp.data, DOMAIN lastOp.data \ lastOp.excl.keys))

\* C10: Flatten before merge.  After load_configfile of an INI or TOML file
\* whose section s holds keys, the Namespace has each of these keys at its
\* top level with the file's value, and no key s that holds a mapping.
C10_FlattenBeforeMerge ==
    (/\ lastOp.op = "load_configfile"
     /\ exists(fs, lastOp.path)
     /\ fs[Join(lastOp.path)].text.fmt \in {"ini", "toml"}
     /\ lastOp.section \in DOMAIN DocAt(lastOp.path))
    => /\ raised = "none"
       /\ \A k \in DOMAIN DocAt(lastOp.path)[lastOp.section].m :
             k \in DOMAIN namespace
             /\ namespace[k] = DocAt(lastOp.path)[lastOp.section].m[k]
       /\ ~(lastOp.section \in DOMAIN namespace
            /\ namespace[lastOp.section].t = "dict")

====
